---- MODULE Spec2Model ----
(***************************************************************************)
(* A model of ddoresolver-rs: DID URL parsing (DID_REGEX and the dispatch  *)
(* pattern), the dispatch helpers try_resolve_any / resolve_any, the       *)
(* did:keri resolver and the key event log replay of mem_parse.            *)
(*                                                                         *)
(* Strings are sequences of one-character strings, byte strings are        *)
(* sequences of numbers in 0..255, Option values are sequences of length   *)
(* at most one (<<>> is None, <<x>> is Some(x)).                           *)
(***************************************************************************)
EXTENDS Integers, Sequences, FiniteSets, TLC

\* ------------------------------------------------------------------------
\* Characters
\* ------------------------------------------------------------------------

Lower ==
  { "a", "b", "c", "d", "e", "f", "g", "h", "i", "j", "k", "l", "m", "n",
    "o", "p", "q", "r", "s", "t", "u", "v", "w", "x", "y", "z" }

Upper ==
  { "A", "B", "C", "D", "E", "F", "G", "H", "I", "J", "K", "L", "M", "N",
    "O", "P", "Q", "R", "S", "T", "U", "V", "W", "X", "Y", "Z" }

Digit ==
  { "0", "1", "2", "3", "4", "5", "6", "7", "8", "9" }

Alnum == Lower \cup Upper \cup Digit

\* The class [-_a-zA-Z0-9] of both patterns.
WordDash == Alnum \cup {"-", "_"}

\* The base64url alphabet in index order (RFC 4648, table 2).
B64Alphabet ==
  << "A", "B", "C", "D", "E", "F", "G", "H", "I", "J", "K", "L", "M", "N",
    "O", "P", "Q", "R", "S", "T", "U", "V", "W", "X", "Y", "Z", "a", "b",
    "c", "d", "e", "f", "g", "h", "i", "j", "k", "l", "m", "n", "o", "p",
    "q", "r", "s", "t", "u", "v", "w", "x", "y", "z", "0", "1", "2", "3",
    "4", "5", "6", "7", "8", "9", "-", "_" >>

None == <<>>

Some(x) == <<x>>

\* The index after the longest run of characters of class that starts at from.
RunEnd(s, from, class) ==
  CHOOSE j \in from..(Len(s) + 1) :
    /\ \A k \in from..(j - 1) : s[k] \in class
    /\ (j = Len(s) + 1 \/ s[j] \notin class)

Min(S) == CHOOSE x \in S : \A y \in S : x <= y

\* ------------------------------------------------------------------------
\* DID_REGEX (lib.rs:22-27) and the helpers built on it
\* ------------------------------------------------------------------------

\* Whether DID_REGEX matches with its first character at position p:
\* [did]{3} ':' [a-z]* ':' and then the (possibly empty) key_id run; the two
\* trailing groups match the empty string.  The greedy [a-z]* run must be
\* followed by ':' (no shorter run can be, a lower-case letter is not ':').
DidRegexMatchAt(url, p) ==
  /\ p + 3 <= Len(url)
  /\ \A i \in p..(p + 2) : url[i] \in {"d", "i"}
  /\ url[p + 3] = ":"
  /\ LET mEnd == RunEnd(url, p + 4, Lower)
     IN  mEnd <= Len(url) /\ url[mEnd] = ":"

\* Regex::captures on DID_REGEX: the pattern is not anchored, so the match is
\* the leftmost one.  None, or Some of the named groups.
DidRegexCaptures(url) ==
  LET starts == { p \in 1..Len(url) : DidRegexMatchAt(url, p) }
  IN  IF starts = {} THEN None
      ELSE LET p    == Min(starts)
               mEnd == RunEnd(url, p + 4, Lower)
               kEnd == RunEnd(url, mEnd + 1, WordDash)
           IN  Some([prefix |-> SubSeq(url, p, p + 2),
                     method |-> SubSeq(url, p + 4, mEnd - 1),
                     key_id |-> SubSeq(url, mEnd + 1, kEnd - 1)])

\* did_id_from_url: Some("prefix:method:key_id") or None.
did_id_from_url(url) ==
  LET captures == DidRegexCaptures(url)
  IN  IF captures = None THEN None
      ELSE Some(captures[1].prefix \o <<":">> \o captures[1].method
                \o <<":">> \o captures[1].key_id)

\* key_id_from_didurl: "#" + key_id, or the empty string without a match.
key_id_from_didurl(url) ==
  LET captures == DidRegexCaptures(url)
  IN  IF captures = None THEN <<>>
      ELSE <<"#">> \o captures[1].key_id

\* ------------------------------------------------------------------------
\* The dispatch pattern of try_resolve_any / resolve_any
\* ------------------------------------------------------------------------

KerlId == <<"?", "k", "e", "r", "l", "=">>

\* Whether the optional group (\?kerl=)([a-zA-Z0-9]+?) matches s up to '$'.
IsKerlSuffix(s) ==
  /\ Len(s) > Len(KerlId)
  /\ SubSeq(s, 1, Len(KerlId)) = KerlId
  /\ \A i \in (Len(KerlId) + 1)..Len(s) : s[i] \in Alnum

\* Regex::captures on ^(did:(method):(id.+?))((\?kerl=)(kerl))?$ where the
\* method class is methodClass.  The lazy id takes the fewest characters that
\* let the rest match: either the optional group matches the whole remainder,
\* or the group does not take part and id runs to the end.  A group that does
\* not take part is None.
DispatchCapturesOf(url, methodClass) ==
  IF ~ (Len(url) >= 4 /\ SubSeq(url, 1, 4) = <<"d", "i", "d", ":">>) THEN None
  ELSE
    LET mEnd == RunEnd(url, 5, methodClass)
    IN  IF ~ (mEnd < Len(url) /\ url[mEnd] = ":") THEN None
        ELSE
          LET cuts == { k \in (mEnd + 1)..(Len(url) - 1) :
                          IsKerlSuffix(SubSeq(url, k + 1, Len(url))) }
              base == [prefix |-> <<"d", "i", "d">>,
                       method |-> SubSeq(url, 5, mEnd - 1)]
          IN  IF cuts = {}
              THEN Some([prefix |-> base.prefix, method |-> base.method,
                         id     |-> SubSeq(url, mEnd + 1, Len(url)),
                         kerlid |-> None, kerl |-> None])
              ELSE LET k == Min(cuts)
                   IN  Some([prefix |-> base.prefix, method |-> base.method,
                             id     |-> SubSeq(url, mEnd + 1, k),
                             kerlid |-> Some(KerlId),
                             kerl   |-> Some(SubSeq(url, k + Len(KerlId) + 1,
                                                    Len(url)))])

\* Both functions compile the same pattern (the method classes [-_A-Za-z0-9]
\* and [-_a-zA-Z0-9] are the same set).
DispatchCaptures(url) == DispatchCapturesOf(url, WordDash)

\* ------------------------------------------------------------------------
\* State
\* ------------------------------------------------------------------------

VARIABLES
  pc,          \* where mem_parse is: "idle", "parse", "fold", "done", "panicked"
  accum,       \* the IdentifierState accumulated by mem_parse's second fold
  applied,     \* history: the events apply has accepted, in order
  offered,     \* history: None, or Some of the last event handed to apply
               \*          with the accumulator it was applied to
  nread,       \* how many items of the parsed stream the folds have consumed
  url,         \* the did_url handed to the dispatch helpers and did_id_from_url
  parserKind,  \* how the keri crate's stream parser treats unparsable input
  keyLenient,  \* whether the did_key crate ignores what follows the key id
  tryRes,      \* outcome of try_resolve_any(url)
  anyRes,      \* outcome of resolve_any(url)
  idRes,       \* outcome of did_id_from_url(url)
  document,    \* the Document the DdoParser operations are called on
  searchFor,   \* the curve or pattern they are called with
  queryRes,    \* which of them was called, and its outcome
  resolverState, \* the state field of the DidKeriResolver that is called
  keriRes,     \* outcome of DidKeriResolver::resolve(url)
  recRes       \* outcome of JoloResolver::resolve_record(url), and what the
               \* contract answered if it was queried

vars ==
  << pc, accum, applied, offered, nread, url, parserKind, keyLenient,
     tryRes, anyRes, idRes, document, searchFor, queryRes, resolverState,
     keriRes, recRes >>

replayVars == << pc, accum, applied, offered, nread >>

dispatchVars == << url, parserKind, keyLenient, tryRes, anyRes, idRes >>

queryVars == << document, searchFor, queryRes >>

resolverVars == << resolverState, keriRes, recRes >>

\* ------------------------------------------------------------------------
\* base64_url::decode and String::from_utf8_lossy
\* ------------------------------------------------------------------------

B64Index(c) == (CHOOSE i \in 1..Len(B64Alphabet) : B64Alphabet[i] = c) - 1

\* Byte j (from 0) of the bit string made of the 6-bit values sx.
B64Byte(sx, j) ==
  LET a == ((8 * j) \div 6) + 1
      o == (8 * j) % 6
  IN  CASE o = 0 -> sx[a] * 4 + (sx[a + 1] \div 16)
        [] o = 2 -> (sx[a] % 16) * 16 + (sx[a + 1] \div 4)
        [] o = 4 -> (sx[a] % 4) * 64 + sx[a + 1]

\* base64_url::decode: URL-safe alphabet, no padding.  It fails on a character
\* outside the alphabet, on a length of 1 modulo 4, and on a last character
\* whose unused low bits are not zero.
base64_url_decode(s) ==
  LET n  == Len(s)
      sx == [i \in 1..n |-> B64Index(s[i])]
  IN  IF \/ \E i \in 1..n : s[i] \notin { B64Alphabet[k] : k \in 1..Len(B64Alphabet) }
         \/ n % 4 = 1
         \/ (n % 4 = 2 /\ sx[n] % 16 # 0)
         \/ (n % 4 = 3 /\ sx[n] % 4 # 0)
      THEN [ok |-> FALSE, bytes |-> <<>>]
      ELSE [ok |-> TRUE,
            bytes |-> [j \in 1..((6 * n) \div 8) |-> B64Byte(sx, j - 1)]]

\* String::from_utf8_lossy followed by as_ref(): an ASCII byte is kept, a
\* byte that no UTF-8 sequence can hold (0xF8..0xFF, the only bytes above
\* 0x7F the model's inputs carry) becomes U+FFFD, that is EF BF BD.
RECURSIVE from_utf8_lossy(_)
from_utf8_lossy(bytes) ==
  IF bytes = <<>> THEN <<>>
  ELSE (IF Head(bytes) < 128 THEN <<Head(bytes)>> ELSE <<239, 191, 189>>)
       \o from_utf8_lossy(Tail(bytes))

\* ------------------------------------------------------------------------
\* The keri crate: keys, events, the stream parser, IdentifierState
\* ------------------------------------------------------------------------

\* Two key lists an establishment event can carry: one Ed25519 key, and an
\* Ed25519 key followed by an X25519 key (as in the tests of keri.rs).
KeyList(k) ==
  IF k = 0
  THEN << [derivation |-> "Ed25519", derivative |-> <<10>>] >>
  ELSE << [derivation |-> "Ed25519NT", derivative |-> <<20>>],
          [derivation |-> "X25519", derivative |-> <<30>>] >>

\* The wire format of the model: one byte below 128 is one item of the
\* stream.  Bits 6-5 give the kind (0 icp, 1 rot, 2 ixn, 3 a receipt, which is
\* not a Deserialized::Event), bits 4-3 the sequence number, bits 2-1 the
\* predecessor digest (0: none) and bit 0 the key list.
DecodeItem(b) ==
  LET t == b \div 32
  IN  [tag   |-> IF t = 3 THEN "Receipt" ELSE "Event",
       event |-> [type |-> CASE t = 0 -> "icp" [] t = 1 -> "rot"
                             [] t = 2 -> "ixn" [] OTHER -> "rct",
                  sequence_no |-> (b \div 8) % 4,
                  predecessor_digest |->
                    IF (b \div 2) % 4 = 0 THEN None ELSE Some((b \div 2) % 4),
                  keys |-> IF t \in {0, 1} THEN KeyList(b % 2) ELSE <<>>,
                  raw  |-> b]]

\* The digest of an event's serialisation: a value in 1..3.
Digest(ev) == (ev.raw % 3) + 1

\* How many leading bytes of kel are items.
ParsablePrefix(kel) == RunEnd(kel, 1, 0..127) - 1

\* signed_event_stream: the items of the stream.  What the keri crate does
\* with input it cannot parse is not visible from this repository, so the
\* three behaviours a nom parser can have are all kept (parserKind):
\* "many0" returns the items before the unparsable rest, "many1" does so but
\* fails when there is no item at all, "all" fails on any unparsable rest.
signed_event_stream_as(kind, kel) ==
  LET n == ParsablePrefix(kel)
  IN  IF \/ (kind = "many1" /\ n = 0)
         \/ (kind = "all" /\ n < Len(kel))
      THEN [ok |-> FALSE, items |-> <<>>]
      ELSE [ok |-> TRUE, items |-> [i \in 1..n |-> DecodeItem(kel[i])]]

signed_event_stream(kel) == signed_event_stream_as(parserKind, kel)

\* IdentifierState::default(): the zero state.
DefaultState ==
  [sequence_no |-> -1, last_digest |-> None, current_keys |-> <<>>]

\* The transition rule of IdentifierState::apply.
Accepts(state, ev) ==
  /\ ev.sequence_no = state.sequence_no + 1
  /\ (state.sequence_no = -1 \/ ev.predecessor_digest = state.last_digest)

\* IdentifierState::apply: Ok(next state) or Err.
apply(state, ev) ==
  IF Accepts(state, ev)
  THEN [ok |-> TRUE,
        state |-> [sequence_no  |-> ev.sequence_no,
                   last_digest  |-> Some(Digest(ev)),
                   current_keys |-> IF ev.type \in {"icp", "rot"}
                                    THEN ev.keys ELSE state.current_keys]]
  ELSE [ok |-> FALSE, state |-> state]

\* ------------------------------------------------------------------------
\* mem_parse (keri.rs:68-82)
\* ------------------------------------------------------------------------

\* The first fold: keep the events of the Deserialized::Event items.
RECURSIVE FilterEvents(_)
FilterEvents(items) ==
  IF items = <<>> THEN <<>>
  ELSE (IF Head(items).tag = "Event" THEN <<Head(items).event>> ELSE <<>>)
       \o FilterEvents(Tail(items))

\* FoldStep with the event applied to a fresh IdentifierState::default()
\* instead of the accumulator.
FoldStep_FromDefault(acc, ev) ==
  LET r == apply(DefaultState, ev)
  IN  IF r.ok THEN [panicked |-> FALSE, state |-> r.state]
      ELSE [panicked |-> TRUE, state |-> DefaultState]

\* FoldStep with the closure returning the old accumulator: the state that
\* apply computed is dropped.
FoldStep_DropsResult(acc, ev) ==
  LET r == apply(acc, ev)
  IN  IF r.ok THEN [panicked |-> FALSE, state |-> acc]
      ELSE [panicked |-> TRUE, state |-> DefaultState]

\* One step of the second fold: accum.apply(&e.event).unwrap().  unwrap
\* panics on Err, and then there is no accumulator any more.
FoldStep(acc, ev) ==
  LET r == apply(acc, ev)
  IN  IF r.ok THEN [panicked |-> FALSE, state |-> r.state]
      ELSE [panicked |-> TRUE, state |-> DefaultState]

RECURSIVE FoldEvents(_, _)
FoldEvents(acc, events) ==
  IF events = <<>> THEN [panicked |-> FALSE, state |-> acc]
  ELSE LET r == FoldStep(acc, Head(events))
       IN  IF r.panicked THEN r ELSE FoldEvents(r.state, Tail(events))

\* mem_parse: signed_event_stream(kel).unwrap(), the two folds.
mem_parse(kel) ==
  LET parsed == signed_event_stream(kel)
  IN  IF ~ parsed.ok THEN [panicked |-> TRUE, state |-> DefaultState]
      ELSE FoldEvents(DefaultState, FilterEvents(parsed.items))

\* ------------------------------------------------------------------------
\* The resolvers (keri.rs:24-66, key.rs:9-14)
\* ------------------------------------------------------------------------

\* as_string without its X25519 arm.
as_string_NoX25519(b) ==
  CASE b \in {"Ed25519NT", "Ed25519"} -> "Ed25519VerificationKey2018"
    [] b \in {"ECDSAsecp256k1", "ECDSAsecp256k1NT"} ->
         "EcdsaSecp256k1VerificationKey2019"
    [] OTHER -> "bad key type"

\* as_string: the key type label of a derivation tag.
as_string(b) ==
  CASE b \in {"Ed25519NT", "Ed25519"} -> "Ed25519VerificationKey2018"
    [] b \in {"ECDSAsecp256k1", "ECDSAsecp256k1NT"} ->
         "EcdsaSecp256k1VerificationKey2019"
    [] b = "X25519" -> "X25519KeyAgreementKey2019"
    [] OTHER -> "bad key type"

\* A resolve that collects the verification methods in reverse key order.
DidKeriResolver_resolve_Reversed(state, did_url) ==
  [ok  |-> TRUE,
   doc |-> Some(
     [context |-> "https://www.w3.org/ns/did/v1",
      id      |-> did_url,
      verification_method |->
        [i \in 1..Len(state.current_keys) |->
           LET prefix == state.current_keys[Len(state.current_keys) + 1 - i]
           IN  [id          |-> key_id_from_didurl(did_url),
                key_type    |-> as_string(prefix.derivation),
                controller  |-> did_url,
                public_key  |-> Some([format |-> "Multibase",
                                      value  |-> prefix.derivative]),
                private_key |-> None]],
      assertion_method      |-> None,
      authentication        |-> None,
      capability_delegation |-> None,
      capability_invocation |-> None,
      key_agreement         |-> None]),
   err |-> None]

\* DidKeriResolver::resolve: always Ok, one verification method per current
\* key of the replayed state.
DidKeriResolver_resolve(state, did_url) ==
  [ok  |-> TRUE,
   doc |-> Some(
     [context |-> "https://www.w3.org/ns/did/v1",
      id      |-> did_url,
      verification_method |->
        [i \in 1..Len(state.current_keys) |->
           [id          |-> key_id_from_didurl(did_url),
            key_type    |-> as_string(state.current_keys[i].derivation),
            controller  |-> did_url,
            public_key  |-> Some([format |-> "Multibase",
                                  value  |-> state.current_keys[i].derivative]),
            private_key |-> None]],
      assertion_method      |-> None,
      authentication        |-> None,
      capability_delegation |-> None,
      capability_invocation |-> None,
      key_agreement         |-> None]),
   err |-> None]

DidKeyPrefix == <<"d", "i", "d", ":", "k", "e", "y", ":">>

\* The one key identifier the did_key crate can decode in the model.
GoodKeyIds == { <<"z", "6">> }

\* did_key::resolve: the key pair of a did:key URL.  Whether the crate
\* ignores a query or fragment after the key id is not visible from this
\* repository; both behaviours are kept (lenient).
did_key_resolve(lenient, did_url) ==
  /\ Len(did_url) > Len(DidKeyPrefix)
  /\ SubSeq(did_url, 1, Len(DidKeyPrefix)) = DidKeyPrefix
  /\ LET from == Len(DidKeyPrefix) + 1
         to   == IF lenient
                 THEN RunEnd(did_url, from, WordDash \cup {".", ":"}) - 1
                 ELSE Len(did_url)
     IN  SubSeq(did_url, from, to) \in GoodKeyIds

\* The document get_did_document(CONFIG_LD_PUBLIC) builds for the key: an
\* Ed25519 verification key and the X25519 key agreement key derived from it,
\* both Base58.
DidKeyDocument(keyId) ==
  LET did == DidKeyPrefix \o keyId
  IN  [context |-> "https://www.w3.org/ns/did/v1",
       id      |-> did,
       verification_method |->
         << [id          |-> did \o <<"#">> \o keyId,
             key_type    |-> "Ed25519VerificationKey2018",
             controller  |-> did,
             public_key  |-> Some([format |-> "Base58", value |-> <<"2", "g">>]),
             private_key |-> None],
            [id          |-> did \o <<"#", "x">>,
             key_type    |-> "X25519KeyAgreementKey2019",
             controller  |-> did,
             public_key  |-> Some([format |-> "Base58", value |-> <<"3", "h">>]),
             private_key |-> None] >>,
       assertion_method      |-> Some(<<did \o <<"#">> \o keyId>>),
       authentication        |-> Some(<<did \o <<"#">> \o keyId>>),
       capability_delegation |-> Some(<<did \o <<"#">> \o keyId>>),
       capability_invocation |-> Some(<<did \o <<"#">> \o keyId>>),
       key_agreement         |-> Some(<<did \o <<"#", "x">>>>)]

\* DidKeyResolver::resolve: the crate's error becomes
\* Error::DidKeyError(format!("{:?}", e)).
DidKeyResolver_resolve(did_url) ==
  IF did_key_resolve(keyLenient, did_url)
  THEN [ok |-> TRUE, doc |-> Some(DidKeyDocument(CHOOSE k \in GoodKeyIds : TRUE)),
        err |-> None]
  ELSE [ok |-> FALSE, doc |-> None,
        err |-> Some([kind |-> "DidKeyError", msg |-> <<"{:?} of did_key::Error">>])]

\* ------------------------------------------------------------------------
\* try_resolve_any and resolve_any (lib.rs:126-185)
\* ------------------------------------------------------------------------

\* Indexing Captures by the name of a group that took no part in the match
\* panics (caps["kerl"]); otherwise it is the group's text.
CapsIndexPanics(group) == group = None

Outcome(kind, doc, err, invoked) ==
  [kind |-> kind, doc |-> doc, err |-> err, invoked |-> invoked]

NotCalled == Outcome("NotCalled", None, None, <<>>)

Call(resolver, op, arg) == [resolver |-> resolver, op |-> op, arg |-> arg]

\* Display of Error (error.rs:12-16), as e.to_string() gives it.
ErrorToString(e) ==
  IF e.kind = "DidKeyError" THEN <<"did_key error: ">> \o e.msg
  ELSE <<"did_keri error: ">> \o e.msg

\* The "keri" arm of try_resolve_any.
TryKeri(caps) ==
  IF CapsIndexPanics(caps.kerlid) THEN Outcome("Panic", None, None, <<>>)
  ELSE IF caps.kerlid[1] = <<>>
  THEN Outcome("Err", None,
               Some([kind |-> "DidKeriError", msg |-> <<"kerl id not found">>]), <<>>)
  ELSE IF CapsIndexPanics(caps.kerl) THEN Outcome("Panic", None, None, <<>>)
  ELSE IF caps.kerl[1] = <<>>
  THEN Outcome("Err", None,
               Some([kind |-> "DidKeriError", msg |-> <<"kerl not found">>]), <<>>)
  ELSE
    LET decoded == base64_url_decode(caps.kerl[1])
        kel     == from_utf8_lossy(decoded.bytes)
        arg     == <<"d", "i", "d", ":", "k", "e", "r", "i", ":">> \o caps.id
        made    == <<Call("keri", "new", kel)>>
    IN  IF ~ decoded.ok
        THEN Outcome("Err", None,
                     Some([kind |-> "Base64DecodeError", msg |-> <<>>]), <<>>)
        ELSE IF mem_parse(kel).panicked
        THEN Outcome("Panic", None, None, made)
        ELSE LET r == DidKeriResolver_resolve(mem_parse(kel).state, arg)
             IN  Outcome("Ok", r.doc, None,
                         made \o <<Call("keri", "resolve", arg)>>)

\* try_resolve_any: a document or an Error.
try_resolve_any(did_url) ==
  LET caps == DispatchCaptures(did_url)
  IN  IF caps = None
      THEN Outcome("Err", None,
                   Some([kind |-> "DidKeyError", msg |-> <<"not a did url">>]), <<>>)
      ELSE
        CASE caps[1].method = <<"k", "e", "y">> ->
               LET r == DidKeyResolver_resolve(did_url)
                   invoked == <<Call("key", "resolve", did_url)>>
               IN  IF r.ok THEN Outcome("Ok", r.doc, None, invoked)
                   ELSE Outcome("Err", None,
                                Some([kind |-> "DidKeyError",
                                      msg  |-> ErrorToString(r.err[1])]), invoked)
          [] caps[1].method = <<"k", "e", "r", "i">> -> TryKeri(caps[1])
          [] OTHER ->
               Outcome("Err", None,
                       Some([kind |-> "DidKeyError",
                             msg  |-> <<"not supported key url">>]), <<>>)

\* resolve_any: Some(document) or None.
resolve_any(did_url) ==
  LET caps == DispatchCaptures(did_url)
  IN  IF caps = None THEN Outcome("None", None, None, <<>>)
      ELSE
        LET parsed_url == caps[1].prefix \o <<":">> \o caps[1].method
                          \o <<":">> \o caps[1].id
        IN  CASE caps[1].method = <<"k", "e", "y">> ->
                   LET r == DidKeyResolver_resolve(parsed_url)
                       invoked == <<Call("key", "resolve", parsed_url)>>
                   IN  IF r.ok THEN Outcome("Some", r.doc, None, invoked)
                       ELSE Outcome("None", None, None, invoked)
              [] caps[1].method = <<"k", "e", "r", "i">> ->
                   IF CapsIndexPanics(caps[1].kerl)
                   THEN Outcome("Panic", None, None, <<>>)
                   ELSE
                     LET decoded == base64_url_decode(caps[1].kerl[1])
                         \* unwrap_or(vec![])
                         kel  == from_utf8_lossy(IF decoded.ok THEN decoded.bytes
                                                 ELSE <<>>)
                         made == <<Call("keri", "new", kel)>>
                     IN  IF mem_parse(kel).panicked
                         THEN Outcome("Panic", None, None, made)
                         ELSE LET r == DidKeriResolver_resolve(
                                         mem_parse(kel).state, parsed_url)
                              IN  Outcome("Some", r.doc, None,
                                          made \o <<Call("keri", "resolve", parsed_url)>>)
              [] OTHER -> Outcome("None", None, None, <<>>)

\* ------------------------------------------------------------------------
\* DdoParser for Document (lib.rs:68-117, 203-214)
\* ------------------------------------------------------------------------

\* str::contains: sub occurs in s (the empty string occurs in every string).
Contains(s, sub) ==
  \E p \in 0..(Len(s) - Len(sub)) : SubSeq(s, p + 1, p + Len(sub)) = sub

\* The characters of the key type labels.
Chars(label) ==
  CASE label = "Ed25519VerificationKey2018" ->
         <<"E", "d", "2", "5", "5", "1", "9", "V", "e", "r", "i", "f", "i",
           "c", "a", "t", "i", "o", "n", "K", "e", "y", "2", "0", "1", "8">>
    [] label = "EcdsaSecp256k1VerificationKey2019" ->
         <<"E", "c", "d", "s", "a", "S", "e", "c", "p", "2", "5", "6", "k",
           "1", "V", "e", "r", "i", "f", "i", "c", "a", "t", "i", "o", "n",
           "K", "e", "y", "2", "0", "1", "9">>
    [] label = "X25519KeyAgreementKey2019" ->
         <<"X", "2", "5", "5", "1", "9", "K", "e", "y", "A", "g", "r", "e",
           "e", "m", "e", "n", "t", "K", "e", "y", "2", "0", "1", "9">>
    [] label = "JsonWebKey2020" ->
         <<"J", "s", "o", "n", "W", "e", "b", "K", "e", "y", "2", "0", "2",
           "0">>
    [] label = "bad key type" ->
         <<"b", "a", "d", " ", "k", "e", "y", " ", "t", "y", "p", "e">>

\* The base58 alphabet: digits and letters without 0, O, I and l.
B58Alphabet ==
  <<"1", "2", "3", "4", "5", "6", "7", "8", "9",
    "A", "B", "C", "D", "E", "F", "G", "H", "J", "K", "L", "M", "N", "P", "Q",
    "R", "S", "T", "U", "V", "W", "X", "Y", "Z",
    "a", "b", "c", "d", "e", "f", "g", "h", "i", "j", "k", "m", "n", "o", "p",
    "q", "r", "s", "t", "u", "v", "w", "x", "y", "z">>

B58Digit(c) == (CHOOSE i \in 1..Len(B58Alphabet) : B58Alphabet[i] = c) - 1

\* The number a string of base58 digits spells, most significant digit first.
RECURSIVE B58Value(_)
B58Value(s) ==
  IF s = <<>> THEN 0
  ELSE B58Value(SubSeq(s, 1, Len(s) - 1)) * 58 + B58Digit(s[Len(s)])

\* The big-endian bytes of n without leading zero bytes.
RECURSIVE BigEndian(_)
BigEndian(n) ==
  IF n = 0 THEN <<>> ELSE Append(BigEndian(n \div 256), n % 256)

\* FromBase58::from_base58: a character outside the alphabet is an error;
\* each leading '1' gives one zero byte and the rest gives the bytes of the
\* number it spells.
from_base58(s) ==
  IF \E k \in 1..Len(s) :
       \A i \in 1..Len(B58Alphabet) : B58Alphabet[i] # s[k]
  THEN [ok |-> FALSE, bytes |-> <<>>]
  ELSE LET zcount == RunEnd(s, 1, {"1"}) - 1
       IN  [ok    |-> TRUE,
            bytes |-> [i \in 1..zcount |-> 0]
                      \o BigEndian(B58Value(SubSeq(s, zcount + 1, Len(s))))]

\* A match that does not look at the curve.
MatchingMethods_AnyKey(doc, curve) == 1..Len(doc.verification_method)

\* The verification methods of doc whose key_type contains curve.
MatchingMethods(doc, curve) ==
  { i \in 1..Len(doc.verification_method) :
      Contains(Chars(doc.verification_method[i].key_type), curve) }

\* The inner match of find_public_key_for_curve on the method k it found:
\* unwrap() of a failed base58 decoding and todo!() for a JWK key panic.
PublicKeyBytes(k) ==
  IF k.public_key = None
  THEN Outcome("Returned", None, None, <<>>)
  ELSE LET key == k.public_key[1]
       IN  CASE key.format = "Base58" ->
                  IF from_base58(key.value).ok
                  THEN Outcome("Returned", Some(from_base58(key.value).bytes),
                               None, <<>>)
                  ELSE Outcome("Panic", None, None, <<>>)
             [] key.format = "Multibase" ->
                  Outcome("Returned", Some(key.value), None, <<>>)
             [] key.format = "JWK" ->
                  Outcome("Panic", None, None, <<>>)

\* A search that keeps the last match instead of the first.
find_public_key_for_curve_LastMatch(doc, curve) ==
  LET found == MatchingMethods(doc, curve)
  IN  IF found = {} THEN Outcome("Returned", None, None, <<>>)
      ELSE PublicKeyBytes(doc.verification_method[
                            CHOOSE i \in found : \A j \in found : j <= i])

\* find_public_key_for_curve: the key bytes of the first verification method
\* whose key_type contains curve.
find_public_key_for_curve(doc, curve) ==
  IF MatchingMethods(doc, curve) = {}
  THEN Outcome("Returned", None, None, <<>>)
  ELSE PublicKeyBytes(doc.verification_method[Min(MatchingMethods(doc, curve))])

\* The verification methods of doc that hold a JWK whose curve contains curve.
JwkMethods(doc, curve) ==
  { i \in 1..Len(doc.verification_method) :
      LET pk == doc.verification_method[i].public_key
      IN  /\ pk # None
          /\ pk[1].format = "JWK"
          /\ Contains(pk[1].value.curve, curve) }

\* get_public_key: the KeyFormat of the first verification method that holds
\* a JWK whose curve contains curve.
get_public_key(doc, curve) ==
  IF JwkMethods(doc, curve) = {} THEN None
  ELSE doc.verification_method[Min(JwkMethods(doc, curve))].public_key

\* find_public_key_id_for_curve: the key_id of that JWK.
find_public_key_id_for_curve(doc, curve) ==
  LET kf == get_public_key(doc, curve)
  IN  IF kf = None THEN Outcome("Returned", None, None, <<>>)
      ELSE IF kf[1].format = "JWK"
      THEN Outcome("Returned", kf[1].value.key_id, None, <<>>)
      ELSE Outcome("Returned", None, None, <<>>)

\* find_public_key_controller_for_curve: the controller of the first
\* verification method whose key_type contains curve.
find_public_key_controller_for_curve(doc, curve) ==
  IF MatchingMethods(doc, curve) = {}
  THEN Outcome("Returned", None, None, <<>>)
  ELSE Outcome("Returned",
               Some(doc.verification_method[
                      Min(MatchingMethods(doc, curve))].controller),
               None, <<>>)

Quote == "\""

\* The k-th position of character c in s, counted from 1.
NthPosition(s, c, k) ==
  CHOOSE p \in 1..Len(s) :
    /\ s[p] = c
    /\ Cardinality({ q \in 1..(p - 1) : s[q] = c }) = k - 1

Count(s, c) == Cardinality({ p \in 1..Len(s) : s[p] = c })

\* One member "name":"value" of a JSON object whose values are strings
\* without escapes.
JsonMember(m) ==
  IF /\ Count(m, Quote) = 4
     /\ m[1] = Quote /\ m[Len(m)] = Quote
     /\ NthPosition(m, Quote, 2) + 2 = NthPosition(m, Quote, 3)
     /\ m[NthPosition(m, Quote, 2) + 1] = ":"
  THEN [ok    |-> TRUE,
        name  |-> SubSeq(m, 2, NthPosition(m, Quote, 2) - 1),
        value |-> SubSeq(m, NthPosition(m, Quote, 3) + 1, Len(m) - 1)]
  ELSE [ok |-> FALSE, name |-> <<>>, value |-> <<>>]

\* The members of the JSON object text, split at its commas ({} has none);
\* a text that is no such object has no member list.
JsonObject(text) ==
  IF ~ (Len(text) >= 2 /\ text[1] = "{" /\ text[Len(text)] = "}")
  THEN [ok |-> FALSE, members |-> <<>>]
  ELSE LET inner == SubSeq(text, 2, Len(text) - 1)
           n     == IF inner = <<>> THEN 0 ELSE Count(inner, ",") + 1
           from(i) == IF i = 1 THEN 1 ELSE NthPosition(inner, ",", i - 1) + 1
           to(i)   == IF i = n THEN Len(inner)
                      ELSE NthPosition(inner, ",", i) - 1
           ms    == [i \in 1..n |-> JsonMember(SubSeq(inner, from(i), to(i)))]
       IN  [ok      |-> \A i \in 1..n : ms[i].ok,
            members |-> ms]

KeyAgreementFields ==
  { <<"i", "d">>, <<"t", "y", "p", "e">>,
    <<"c", "o", "n", "t", "r", "o", "l", "l", "e", "r">>,
    <<"p", "u", "b", "l", "i", "c", "K", "e", "y", "B", "a", "s", "e", "5",
      "8">> }

\* serde_json::from_str::<Option<KeyAgreement>>: null is Ok(None); an object
\* is Ok(Some(..)) when each of the four fields occurs once (other members
\* are ignored); anything else is an error.
serde_json_from_str(text) ==
  IF text = <<"n", "u", "l", "l">> THEN [ok |-> TRUE, value |-> None]
  ELSE LET obj == JsonObject(text)
           at(f) == { i \in 1..Len(obj.members) : obj.members[i].name = f }
           get(f) == obj.members[CHOOSE i \in at(f) : TRUE].value
       IN  IF obj.ok /\ \A f \in KeyAgreementFields : Cardinality(at(f)) = 1
           THEN [ok    |-> TRUE,
                 value |-> Some(
                   [id         |-> get(<<"i", "d">>),
                    type       |-> get(<<"t", "y", "p", "e">>),
                    controller |-> get(<<"c", "o", "n", "t", "r", "o", "l",
                                         "l", "e", "r">>),
                    public_key_base58 |->
                      get(<<"p", "u", "b", "l", "i", "c", "K", "e", "y", "B",
                            "a", "s", "e", "5", "8">>)])]
           ELSE [ok |-> FALSE, value |-> None]

\* The entries of agreements that contain pattern.
MatchingAgreements(agreements, pattern) ==
  { i \in 1..Len(agreements) : Contains(agreements[i], pattern) }

\* A scan that skips the entries it cannot deserialize.
find_key_agreement_SkipsUndecodable(doc, pattern) ==
  IF doc.key_agreement = None THEN Outcome("Returned", None, None, <<>>)
  ELSE LET agreements == doc.key_agreement[1]
           found      == { i \in MatchingAgreements(agreements, pattern) :
                             serde_json_from_str(agreements[i]).ok }
       IN  IF found = {} THEN Outcome("Returned", None, None, <<>>)
           ELSE Outcome("Returned",
                        serde_json_from_str(agreements[Min(found)]).value,
                        None, <<>>)

\* find_key_agreement: the first entry of key_agreement that contains pattern,
\* deserialized; unwrap_or(None) turns a failed deserialization into None.
find_key_agreement(doc, pattern) ==
  IF doc.key_agreement = None THEN Outcome("Returned", None, None, <<>>)
  ELSE LET agreements == doc.key_agreement[1]
           found      == MatchingAgreements(agreements, pattern)
       IN  IF found = {} THEN Outcome("Returned", None, None, <<>>)
           ELSE LET r == serde_json_from_str(agreements[Min(found)])
                IN  Outcome("Returned", IF r.ok THEN r.value ELSE None,
                            None, <<>>)

\* ------------------------------------------------------------------------
\* JoloResolver::resolve_record (jolo/mod.rs:92-106, jolo.rs:61-78)
\* ------------------------------------------------------------------------

JoloPrefix == <<"d", "i", "d", ":", "j", "o", "l", "o", ":">>

\* The length resolve_record compares did_url.len() with.
JoloUrlLen == 73

\* The literal of the starts_with test: "did::jolo:" in jolo/mod.rs and
\* "did::jolo" in jolo.rs.  Both files declare the module jolo.
JoloGuards ==
  { <<"d", "i", "d", ":", ":", "j", "o", "l", "o", ":">>,
    <<"d", "i", "d", ":", ":", "j", "o", "l", "o">> }

\* str::starts_with
StartsWith(s, prefix) ==
  Len(s) >= Len(prefix) /\ SubSeq(s, 1, Len(prefix)) = prefix

\* str::trim_start_matches: s without every leading repetition of prefix.
RECURSIVE trim_start_matches(_, _)
trim_start_matches(s, prefix) ==
  IF StartsWith(s, prefix)
  THEN trim_start_matches(SubSeq(s, Len(prefix) + 1, Len(s)), prefix)
  ELSE s

HexDigits ==
  <<"0", "1", "2", "3", "4", "5", "6", "7", "8", "9",
    "a", "b", "c", "d", "e", "f">>

UpperHexDigits == <<"A", "B", "C", "D", "E", "F">>

IsHex(c) ==
  \/ \E i \in 1..Len(HexDigits) : HexDigits[i] = c
  \/ \E i \in 1..Len(UpperHexDigits) : UpperHexDigits[i] = c

HexValue(c) ==
  IF \E i \in 1..Len(HexDigits) : HexDigits[i] = c
  THEN (CHOOSE i \in 1..Len(HexDigits) : HexDigits[i] = c) - 1
  ELSE (CHOOSE i \in 1..Len(UpperHexDigits) : UpperHexDigits[i] = c) + 9

\* hex::decode: an odd length or a character that is no hex digit is an
\* error; otherwise one byte for every two digits.
hex_decode(s) ==
  IF Len(s) % 2 # 0 \/ \E k \in 1..Len(s) : ~ IsHex(s[k])
  THEN [ok |-> FALSE, bytes |-> <<>>]
  ELSE [ok    |-> TRUE,
        bytes |-> [i \in 1..(Len(s) \div 2) |->
                     HexValue(s[2 * i - 1]) * 16 + HexValue(s[2 * i])]]

\* resolve_record with guard as the literal of its starts_with test and
\* answer as what contract.query("getRecord", ..) gives: [ok |-> FALSE] for an
\* error of the call, or the record.
resolve_record_with(guard, did_url, answer) ==
  IF ~ StartsWith(did_url, guard) /\ Len(did_url) # JoloUrlLen
  THEN Outcome("Err", None, Some([kind |-> "NotDidJolo", msg |-> <<>>]), <<>>)
  ELSE
    LET decoded == hex_decode(trim_start_matches(did_url, JoloPrefix))
        queried == <<Call("contract", "getRecord", decoded.bytes)>>
    IN  IF ~ decoded.ok
        THEN Outcome("Err", None,
                     Some([kind |-> "FromHexError", msg |-> <<>>]), <<>>)
        ELSE IF ~ answer.ok
        THEN Outcome("Err", None,
                     Some([kind |-> "W3ContractError", msg |-> <<>>]), queried)
        ELSE IF answer.record = <<>>
        THEN Outcome("Err", None,
                     Some([kind |-> "DidResolutionFailed", msg |-> <<>>]),
                     queried)
        ELSE Outcome("Ok", Some(answer.record), None, queried)

\* ------------------------------------------------------------------------
\* Inputs
\* ------------------------------------------------------------------------

\* How many items of a parsed stream the replay reads.
MaxItems == 3

\* The bytes an item of the stream is drawn from: every event, one receipt.
ItemBytes == 0..96

UrlPrefixes == { <<"d", "i", "d">>, <<"i", "d", "d">>, <<"x", "d", "i", "d">> }

UrlMethods ==
  { <<"k", "e", "y">>, <<"k", "e", "r", "i">>, <<"w", "e", "b">>,
    <<"w", "e", "b", "3">>, <<>> }

UrlIds == { <<"z", "6">>, <<"E", "-", "_", "4">>, <<"a", ".", "b">>, <<>> }

\* base64url (no padding) of event logs and of other byte strings:
\*   AQ    01        icp sn 0
\*   ASw   01 2C     icp sn 0, rot sn 1 on its digest
\*   ASx-  01 2C 7E  the same followed by a receipt
\*   ASx_  01 2C 7F  the same followed by another receipt
\*   AQE   01 01     icp sn 0 twice (the second is out of order)
\*   LA    2C        rot sn 1 first (out of order)
\*   Af8   01 FF     icp sn 0 and a byte that is no item
\*   A     not base64 (length), AR not base64 (trailing bits)
Kerls ==
  { <<"A", "Q">>, <<"A", "S", "w">>, <<"A", "S", "x", "-">>,
    <<"A", "S", "x", "_">>, <<"A", "Q", "E">>, <<"L", "A">>,
    <<"A", "f", "8">>, <<"A">>, <<"A", "R">>, <<>> }

UrlSuffixes ==
  { <<>>, <<"?", "x", "=", "1">>, <<"#", "k">> }
    \cup { KerlId \o k : k \in Kerls }

Urls ==
  { p \o <<":">> \o m \o <<":">> \o i \o s :
      p \in UrlPrefixes, m \in UrlMethods, i \in UrlIds, s \in UrlSuffixes }
    \cup { <<>>, <<"d", "i", "d">>, <<"d", "i", "d", ":", "k", "e", "y">> }

\* The verification methods the queried documents are made of: the key
\* formats of did_key::KeyFormat, a Base58 text that is no base58, a method
\* without a public key, and JWKs whose curve and key_type differ.
QueryMethods ==
  { [id          |-> <<"#", "1">>,
     key_type    |-> "Ed25519VerificationKey2018",
     controller  |-> <<"c", "1">>,
     public_key  |-> Some([format |-> "Base58", value |-> <<"2", "g">>]),
     private_key |-> None],
    [id          |-> <<"#", "2">>,
     key_type    |-> "Ed25519VerificationKey2018",
     controller  |-> <<"c", "2">>,
     public_key  |-> Some([format |-> "Base58", value |-> <<"0", "l">>]),
     private_key |-> None],
    [id          |-> <<"#", "3">>,
     key_type    |-> "Ed25519VerificationKey2018",
     controller  |-> <<"c", "3">>,
     public_key  |-> Some([format |-> "Multibase", value |-> <<1, 2>>]),
     private_key |-> None],
    [id          |-> <<"#", "4">>,
     key_type    |-> "X25519KeyAgreementKey2019",
     controller  |-> <<"c", "4">>,
     public_key  |-> Some([format |-> "Multibase", value |-> <<3>>]),
     private_key |-> None],
    [id          |-> <<"#", "5">>,
     key_type    |-> "X25519KeyAgreementKey2019",
     controller  |-> <<"c", "5">>,
     public_key  |-> Some([format |-> "Base58", value |-> <<"1", "z", "2">>]),
     private_key |-> None],
    [id          |-> <<"#", "6">>,
     key_type    |-> "JsonWebKey2020",
     controller  |-> <<"c", "6">>,
     public_key  |-> Some([format |-> "JWK",
                           value  |-> [key_id |-> Some(<<"k", "6">>),
                                       curve  |-> <<"E", "d", "2", "5", "5",
                                                    "1", "9">>]]),
     private_key |-> None],
    [id          |-> <<"#", "7">>,
     key_type    |-> "X25519KeyAgreementKey2019",
     controller  |-> <<"c", "7">>,
     public_key  |-> Some([format |-> "JWK",
                           value  |-> [key_id |-> Some(<<"k", "7">>),
                                       curve  |-> <<"P", "-", "2", "5", "6">>]]),
     private_key |-> None],
    [id          |-> <<"#", "8">>,
     key_type    |-> "JsonWebKey2020",
     controller  |-> <<"c", "8">>,
     public_key  |-> Some([format |-> "JWK",
                           value  |-> [key_id |-> None,
                                       curve  |-> <<"X", "2", "5", "5", "1",
                                                    "9">>]]),
     private_key |-> None],
    [id          |-> <<"#", "9">>,
     key_type    |-> "Ed25519VerificationKey2018",
     controller  |-> <<"c", "9">>,
     public_key  |-> None,
     private_key |-> None] }

\* How many verification methods a queried document holds at most.
MaxMethods == 2

JsonString(s) == <<Quote>> \o s \o <<Quote>>

JsonField(name, value) == JsonString(name) \o <<":">> \o JsonString(value)

\* A serialized KeyAgreement with the given id and type.
AgreementText(id, type) ==
  <<"{">> \o JsonField(<<"i", "d">>, id) \o <<",">>
    \o JsonField(<<"t", "y", "p", "e">>, type) \o <<",">>
    \o JsonField(<<"c", "o", "n", "t", "r", "o", "l", "l", "e", "r">>,
                 <<"c">>) \o <<",">>
    \o JsonField(<<"p", "u", "b", "l", "i", "c", "K", "e", "y", "B", "a", "s",
                   "e", "5", "8">>, <<"2", "g">>)
    \o <<"}">>

XAgreement == AgreementText(<<"a">>, <<"X", "2", "5", "5", "1", "9">>)

EdAgreement == AgreementText(<<"b">>, <<"E", "d", "2", "5", "5", "1", "9">>)

\* An object that lacks fields of KeyAgreement.
PartialAgreement ==
  <<"{">> \o JsonField(<<"i", "d">>, <<"X", "2", "5", "5", "1", "9">>)
    \o <<"}">>

\* A key agreement entry as the did_key crate writes it: the id of a method.
PlainAgreement == <<"d", "i", "d", ":", "k", "e", "y", ":", "z", "6", "#", "x">>

\* The values of Document::key_agreement: absent, empty, and lists in which
\* the first entry that contains a pattern can or cannot be deserialized.
KeyAgreements ==
  { None, Some(<<>>), Some(<<XAgreement>>), Some(<<EdAgreement, XAgreement>>),
    Some(<<PartialAgreement, XAgreement>>),
    Some(<<PlainAgreement, XAgreement>>),
    Some(<<<<"n", "u", "l", "l">>, EdAgreement>>) }

QueryDocument(methods, agreements) ==
  [context |-> "https://www.w3.org/ns/did/v1",
   id      |-> <<"d", "i", "d", ":", "k", "e", "y", ":", "z", "6">>,
   verification_method   |-> methods,
   assertion_method      |-> None,
   authentication        |-> None,
   capability_delegation |-> None,
   capability_invocation |-> None,
   key_agreement         |-> agreements]

Documents ==
  { QueryDocument(ms, ka) :
      ms \in UNION { [1..n -> QueryMethods] : n \in 0..MaxMethods },
      ka \in KeyAgreements }

\* The curves and patterns the documents are queried with.
Patterns ==
  { <<"E", "d", "2", "5", "5", "1", "9">>, <<"X", "2", "5", "5", "1", "9">>,
    <<"2", "5", "5", "1", "9">>, <<"E", "D">>, <<"K", "e", "y">>, <<>> }

\* The derivation tags of keri::prefix::Basic.
BasicTags ==
  { "ECDSAsecp256k1NT", "ECDSAsecp256k1", "Ed25519NT", "Ed25519",
    "Ed448NT", "Ed448", "X25519", "X448" }

\* How many current keys the state of a DidKeriResolver holds at most.
MaxKeys == 2

\* The states a DidKeriResolver can hold after its constructor: those of an
\* inception event with up to MaxKeys keys of any derivation.
ResolverStates ==
  { [sequence_no  |-> 0,
     last_digest  |-> Some(1),
     current_keys |-> [i \in 1..Len(tags) |-> [derivation |-> tags[i],
                                       derivative |-> <<i>>]]] :
      tags \in UNION { [1..n -> BasicTags] : n \in 0..MaxKeys } }

\* The URLs DidKeriResolver::resolve is called with.
ResolverUrls ==
  { <<"d", "i", "d", ":", "k", "e", "r", "i", ":">> \o i :
      i \in UrlIds \ {<<>>} }
    \cup { <<>>, <<"d", "i", "d", ":", "k", "e", "y", ":", "z", "6", "#", "k">> }

Repeat(c, n) == [i \in 1..n |-> c]

\* The URLs resolve_record is called with: did:jolo: URLs of the compared
\* length and shorter, with and without hex digits, and URLs of other shapes,
\* of the compared length and shorter.
JoloUrls ==
  { JoloPrefix \o Repeat("a", JoloUrlLen - Len(JoloPrefix)),
    JoloPrefix \o Repeat("a", 4),
    JoloPrefix \o <<"z", "z">>,
    <<"d", "i", "d", ":", "w", "e", "b", ":">> \o Repeat("a", JoloUrlLen - 8),
    <<"d", "i", "d", ":", "w", "e", "b", ":">> \o Repeat("a", 4),
    <<"d", "i", "d", ":", ":", "j", "o", "l", "o", ":", "a", "b">>,
    Repeat("a", JoloUrlLen),
    Repeat("a", 4),
    <<>> }

\* What the contract can answer: an error of the call, an empty record, a
\* record.
ContractAnswers ==
  { [ok |-> FALSE, record |-> <<>>], [ok |-> TRUE, record |-> <<>>],
    [ok |-> TRUE, record |-> <<"Q", "m">>] }

\* ------------------------------------------------------------------------
\* The state machine
\* ------------------------------------------------------------------------

\* A replay is about to start and no URL is being resolved, or the other way
\* round: the two parts share no state.
\* No document is queried and no resolver is called directly.
NothingQueried ==
  /\ document = QueryDocument(<<>>, None) /\ searchFor = <<>>
  /\ queryRes = NotCalled
  /\ resolverState = DefaultState /\ keriRes = NotCalled /\ recRes = NotCalled

InitReplay ==
  /\ pc = "parse" /\ accum = DefaultState /\ applied = <<>> /\ offered = None
  /\ nread = 0
  /\ url = <<>> /\ parserKind = "many0" /\ keyLenient = FALSE
  /\ tryRes = NotCalled /\ anyRes = NotCalled /\ idRes = NotCalled
  /\ NothingQueried

InitDispatch ==
  /\ pc = "idle" /\ accum = DefaultState /\ applied = <<>> /\ offered = None
  /\ nread = 0
  /\ url \in Urls
  /\ parserKind \in {"many0", "many1", "all"}
  /\ keyLenient \in BOOLEAN
  /\ tryRes = NotCalled /\ anyRes = NotCalled /\ idRes = NotCalled
  /\ NothingQueried

\* A document is about to be queried.
InitQuery ==
  /\ pc = "query" /\ accum = DefaultState /\ applied = <<>> /\ offered = None
  /\ nread = 0
  /\ url = <<>> /\ parserKind = "many0" /\ keyLenient = FALSE
  /\ tryRes = NotCalled /\ anyRes = NotCalled /\ idRes = NotCalled
  /\ document \in Documents /\ searchFor \in Patterns
  /\ queryRes = NotCalled
  /\ resolverState = DefaultState /\ keriRes = NotCalled /\ recRes = NotCalled

\* A DidKeriResolver is about to resolve url.
InitResolver ==
  /\ pc = "resolve" /\ accum = DefaultState /\ applied = <<>>
  /\ offered = None /\ nread = 0
  /\ url \in ResolverUrls /\ parserKind = "many0" /\ keyLenient = FALSE
  /\ tryRes = NotCalled /\ anyRes = NotCalled /\ idRes = NotCalled
  /\ document = QueryDocument(<<>>, None) /\ searchFor = <<>>
  /\ queryRes = NotCalled
  /\ resolverState \in ResolverStates
  /\ keriRes = NotCalled /\ recRes = NotCalled

\* A JoloResolver is about to resolve the record of url.
InitJolo ==
  /\ pc = "jolo" /\ accum = DefaultState /\ applied = <<>> /\ offered = None
  /\ nread = 0
  /\ url \in JoloUrls /\ parserKind = "many0" /\ keyLenient = FALSE
  /\ tryRes = NotCalled /\ anyRes = NotCalled /\ idRes = NotCalled
  /\ NothingQueried

Init == InitReplay \/ InitDispatch \/ InitQuery \/ InitResolver \/ InitJolo

\* mem_parse, line 71-72: signed_event_stream(kel).unwrap() returns the items
\* or panics.
ParseStream ==
  /\ pc = "parse"
  /\ \E ok \in BOOLEAN : pc' = IF ok THEN "fold" ELSE "panicked"
  /\ UNCHANGED << accum, applied, offered, nread >>
  /\ UNCHANGED dispatchVars
  /\ UNCHANGED << queryVars, resolverVars >>

\* mem_parse, lines 73-81, for the next item of the stream: the first fold
\* drops an item that is no event, the second applies an event and unwraps.
FoldItem(b) ==
  /\ pc = "fold"
  /\ nread < MaxItems
  /\ nread' = nread + 1
  /\ LET item == DecodeItem(b)
     IN  IF FilterEvents(<<item>>) = <<>>
         THEN UNCHANGED << pc, accum, applied, offered >>
         ELSE LET r == FoldStep(accum, item.event)
              IN  /\ offered' = Some([event |-> item.event, pre |-> accum])
                  /\ IF r.panicked
                     THEN pc' = "panicked" /\ UNCHANGED << accum, applied >>
                     ELSE /\ accum' = r.state
                          /\ applied' = Append(applied, item.event)
                          /\ UNCHANGED pc
  /\ UNCHANGED dispatchVars
  /\ UNCHANGED << queryVars, resolverVars >>

\* mem_parse, line 81: the stream is exhausted and the fold returns accum.
FoldEnd ==
  /\ pc = "fold"
  /\ pc' = "done"
  /\ UNCHANGED << accum, applied, offered, nread >>
  /\ UNCHANGED dispatchVars
  /\ UNCHANGED << queryVars, resolverVars >>

CallTryResolveAny ==
  /\ pc = "idle"
  /\ tryRes = NotCalled
  /\ tryRes' = try_resolve_any(url)
  /\ UNCHANGED << url, parserKind, keyLenient, anyRes, idRes >>
  /\ UNCHANGED replayVars
  /\ UNCHANGED << queryVars, resolverVars >>

CallResolveAny ==
  /\ pc = "idle"
  /\ anyRes = NotCalled
  /\ anyRes' = resolve_any(url)
  /\ UNCHANGED << url, parserKind, keyLenient, tryRes, idRes >>
  /\ UNCHANGED replayVars
  /\ UNCHANGED << queryVars, resolverVars >>

CallDidIdFromUrl ==
  /\ pc = "idle"
  /\ idRes = NotCalled
  /\ idRes' = Outcome("Returned", did_id_from_url(url), None, <<>>)
  /\ UNCHANGED << url, parserKind, keyLenient, tryRes, anyRes >>
  /\ UNCHANGED replayVars
  /\ UNCHANGED << queryVars, resolverVars >>

CallFindPublicKeyForCurve ==
  /\ pc = "query"
  /\ queryRes = NotCalled
  /\ queryRes' = [op  |-> "find_public_key_for_curve",
                  res |-> find_public_key_for_curve(document, searchFor)]
  /\ UNCHANGED << document, searchFor, resolverVars >>
  /\ UNCHANGED << replayVars, dispatchVars >>

CallFindPublicKeyIdForCurve ==
  /\ pc = "query"
  /\ queryRes = NotCalled
  /\ queryRes' = [op  |-> "find_public_key_id_for_curve",
                  res |-> find_public_key_id_for_curve(document, searchFor)]
  /\ UNCHANGED << document, searchFor, resolverVars >>
  /\ UNCHANGED << replayVars, dispatchVars >>

CallFindPublicKeyControllerForCurve ==
  /\ pc = "query"
  /\ queryRes = NotCalled
  /\ queryRes' = [op  |-> "find_public_key_controller_for_curve",
                  res |-> find_public_key_controller_for_curve(document, searchFor)]
  /\ UNCHANGED << document, searchFor, resolverVars >>
  /\ UNCHANGED << replayVars, dispatchVars >>

CallFindKeyAgreement ==
  /\ pc = "query"
  /\ queryRes = NotCalled
  /\ queryRes' = [op  |-> "find_key_agreement",
                  res |-> find_key_agreement(document, searchFor)]
  /\ UNCHANGED << document, searchFor, resolverVars >>
  /\ UNCHANGED << replayVars, dispatchVars >>

\* DidKeriResolver::resolve(url).
CallKeriResolve ==
  /\ pc = "resolve"
  /\ keriRes = NotCalled
  /\ LET r == DidKeriResolver_resolve(resolverState, url)
     IN  keriRes' = Outcome(IF r.ok THEN "Ok" ELSE "Err", r.doc, r.err,
                            <<Call("keri", "resolve", url)>>)
  /\ UNCHANGED << resolverState, recRes, queryVars >>
  /\ UNCHANGED << replayVars, dispatchVars >>

\* find_public_key_for_curve(curve) on the document resolve has returned, as
\* d.unwrap().find_public_key_for_curve(..) in the tests of keri.rs.
CallFindPublicKeyOnResolved(curve) ==
  /\ pc = "resolve"
  /\ keriRes # NotCalled /\ keriRes.kind = "Ok"
  /\ queryRes = NotCalled
  /\ document' = keriRes.doc[1]
  /\ searchFor' = curve
  /\ queryRes' = [op  |-> "find_public_key_for_curve",
                  res |-> find_public_key_for_curve(keriRes.doc[1], curve)]
  /\ UNCHANGED resolverVars
  /\ UNCHANGED << replayVars, dispatchVars >>

\* JoloResolver::resolve_record; the contract answers with answer when it is
\* queried, and answered keeps what it answered.
CallResolveRecord(guard, answer) ==
  /\ pc = "jolo"
  /\ recRes = NotCalled
  /\ LET res == resolve_record_with(guard, url, answer)
     IN  recRes' = [res      |-> res,
                    answered |-> IF res.invoked = <<>> THEN None
                                 ELSE Some(answer)]
  /\ UNCHANGED << resolverState, keriRes, queryVars >>
  /\ UNCHANGED << replayVars, dispatchVars >>

Next ==
  \/ ParseStream
  \/ \E b \in ItemBytes : FoldItem(b)
  \/ FoldEnd
  \/ CallTryResolveAny
  \/ CallResolveAny
  \/ CallDidIdFromUrl
  \/ CallFindPublicKeyForCurve
  \/ CallFindPublicKeyIdForCurve
  \/ CallFindPublicKeyControllerForCurve
  \/ CallFindKeyAgreement
  \/ CallKeriResolve
  \/ \E curve \in Patterns : CallFindPublicKeyOnResolved(curve)
  \/ \E guard \in JoloGuards, answer \in ContractAnswers :
       CallResolveRecord(guard, answer)

Spec == Init /\ [][Next]_vars

\* ------------------------------------------------------------------------
\* Replay: claims C1-C4
\* ------------------------------------------------------------------------

\* The transition rule as the specification words it, for an event ev met in
\* state pre.
RuleHolds(pre, ev) ==
  /\ ev.sequence_no = pre.sequence_no + 1
  /\ (pre.sequence_no = -1 \/ ev.predecessor_digest = pre.last_digest)

\* The last event handed to apply was accepted: it is the newest applied
\* event, one more than before it was offered.
OfferedAccepted ==
  /\ offered # None
  /\ Len(applied) = offered[1].pre.sequence_no + 2
  /\ applied[Len(applied)] = offered[1].event

\* The last event handed to apply was rejected.
OfferedRejected == offered # None /\ ~ OfferedAccepted

\* C1: during replay an event is accepted if and only if its sequence_no is
\* state.sequence_no + 1 and (state.sequence_no is -1 or its predecessor
\* digest is the digest of the last applied event); replay starts from the
\* zero state (sequence_no -1, no digest, no keys) and no other event is ever
\* applied: the applied events are numbered 0, 1, 2, ... and each names the
\* digest of the one before it.
C1_AcceptedIffRule ==
  /\ applied = <<>> =>
       accum = [sequence_no |-> -1, last_digest |-> None, current_keys |-> <<>>]
  /\ offered # None =>
       (OfferedAccepted <=> RuleHolds(offered[1].pre, offered[1].event))
  /\ \A k \in 1..Len(applied) :
       /\ applied[k].sequence_no = k - 1
       /\ k > 1 => applied[k].predecessor_digest = Some(Digest(applied[k - 1]))
  /\ accum.sequence_no = Len(applied) - 1

\* Two events were accepted and a third, with the right sequence number but
\* a wrong predecessor digest, was rejected.
C1_Witness ==
  /\ Len(applied) = 2
  /\ OfferedRejected
  /\ offered[1].event.sequence_no = 2
  /\ offered[1].event.predecessor_digest # offered[1].pre.last_digest

\* C2: when replay meets an event that fails the ordering or predecessor
\* digest check, replay stops with the state as it was after the last
\* accepted event and reports the rejection as a result value: the process is
\* not aborted.
C2_RejectionIsReported ==
  OfferedRejected => (pc # "panicked" /\ accum = offered[1].pre)

\* C3: an accepted Inception or Rotation replaces current_keys with the
\* event's key list, an accepted Interaction leaves current_keys unchanged,
\* and in all three cases sequence_no and last_digest become those of the
\* accepted event.
C3_AcceptedEventEffect ==
  OfferedAccepted =>
    LET ev  == offered[1].event
        pre == offered[1].pre
    IN  /\ ev.type \in {"icp", "rot"} => accum.current_keys = ev.keys
        /\ ev.type = "ixn" => accum.current_keys = pre.current_keys
        /\ accum.sequence_no = ev.sequence_no
        /\ accum.last_digest = Some(Digest(ev))

\* An Interaction was accepted in a state that holds keys, after a Rotation
\* had replaced the keys of the Inception.
C3_Witness ==
  /\ OfferedAccepted
  /\ offered[1].event.type = "ixn"
  /\ Len(applied) = 3
  /\ applied[1].type = "icp" /\ applied[2].type = "rot"
  /\ applied[1].keys # applied[2].keys
  /\ accum.current_keys = applied[2].keys

\* The key list of the most recent Inception or Rotation among events, empty
\* if there is none.
RECURSIVE LastEstablishmentKeys(_)
LastEstablishmentKeys(events) ==
  IF events = <<>> THEN <<>>
  ELSE IF events[Len(events)].type \in {"icp", "rot"}
  THEN events[Len(events)].keys
  ELSE LastEstablishmentKeys(SubSeq(events, 1, Len(events) - 1))

\* C4: after replaying any finite event sequence, rejected events included,
\* there is a resulting state, and its current_keys is the key list of the
\* most recent accepted Inception or Rotation (empty if none was accepted).
C4_KeysOfLastEstablishment ==
  (offered # None /\ pc \in {"done", "panicked"}) =>
    /\ pc # "panicked"
    /\ accum.current_keys = LastEstablishmentKeys(applied)

\* While replay runs, the accumulator holds the keys of the most recent
\* accepted Inception or Rotation.
KeysReflectLastEstablishment ==
  accum.current_keys = LastEstablishmentKeys(applied)

\* The stepwise replay computes what the two folds of mem_parse compute.
ReplayMatchesFolds ==
  pc \in {"fold", "done"} => FoldEvents(DefaultState, applied).state = accum

\* ------------------------------------------------------------------------
\* Dispatch: claims C5-C9
\* ------------------------------------------------------------------------

DidKeriPrefix == <<"d", "i", "d", ":", "k", "e", "r", "i", ":">>

\* C5: resolve_any never raises or aborts; for every input string it returns
\* Some(document) or None.
C5_ResolveAnyNeverAborts == anyRes.kind \in {"NotCalled", "Some", "None"}

\* url is a did:keri URL with an identifier and no kerl query, or an empty one.
KeriUrlWithoutKerl ==
  \E i \in UrlIds, s \in {<<>>, KerlId} :
    i # <<>> /\ url = DidKeriPrefix \o i \o s

\* C6: try_resolve_any returns a result value (a document or an error) for
\* every input string and never aborts; a did:keri URL with no kerl query, or
\* an empty one, yields a DidKeriError.
C6_TryResolveAnyReturnsResult ==
  /\ tryRes.kind \in {"NotCalled", "Ok", "Err"}
  /\ (tryRes # NotCalled /\ KeriUrlWithoutKerl) =>
       (tryRes.kind = "Err" /\ tryRes.err[1].kind = "DidKeriError")

\* The methods try_resolve_any and resolve_any have an arm for.
RegisteredMethods == { <<"k", "e", "y">>, <<"k", "e", "r", "i">> }

\* The error try_resolve_any returns for a string that is no DID URL.
NotADidError == try_resolve_any(<<"x">>).err[1]

\* C7: dispatch parses the URL first; on a parse failure try_resolve_any
\* fails and resolve_any returns None, without invoking a strategy.  For a
\* parsed URL whose method has no strategy, try_resolve_any fails with an
\* error of another kind than the parse error and resolve_any returns None,
\* again without invoking a strategy.
C7_NoStrategyWithoutMethod ==
  LET caps == DispatchCaptures(url)
      unsupported == caps # None /\ caps[1].method \notin RegisteredMethods
  IN  /\ (tryRes # NotCalled /\ caps = None) =>
           (tryRes.kind = "Err" /\ tryRes.invoked = <<>>)
      /\ (anyRes # NotCalled /\ caps = None) =>
           (anyRes.kind = "None" /\ anyRes.invoked = <<>>)
      /\ (tryRes # NotCalled /\ unsupported) =>
           /\ tryRes.kind = "Err" /\ tryRes.invoked = <<>>
           /\ tryRes.err[1].kind # NotADidError.kind
      /\ (anyRes # NotCalled /\ unsupported) =>
           (anyRes.kind = "None" /\ anyRes.invoked = <<>>)

\* The bytes are an event log: every byte is an item, there is at least one,
\* and replay accepts every event.
IsEventLog(bytes) ==
  /\ bytes # <<>>
  /\ ParsablePrefix(bytes) = Len(bytes)
  /\ ~ FoldEvents(DefaultState,
                  FilterEvents([i \in 1..Len(bytes) |-> DecodeItem(bytes[i])])).panicked

\* The state the replay of an event log ends in.
ReplayOf(bytes) ==
  FoldEvents(DefaultState,
             FilterEvents([i \in 1..Len(bytes) |-> DecodeItem(bytes[i])])).state

\* C8: for did:keri:<identifier>?kerl=<v>, v the unpadded base64url encoding
\* of an event log (any character of the base64url alphabet, '-' and '_'
\* included), resolve_any and try_resolve_any both replay the decoded log and
\* return a document whose id is did:keri:<identifier>.
C8_KerlReplayed ==
  \A i \in UrlIds \ {<<>>}, v \in Kerls :
    (/\ url = DidKeriPrefix \o i \o KerlId \o v
     /\ base64_url_decode(v).ok
     /\ IsEventLog(base64_url_decode(v).bytes)) =>
      LET want == DidKeriResolver_resolve(ReplayOf(base64_url_decode(v).bytes),
                                          DidKeriPrefix \o i).doc
      IN  /\ want[1].id = DidKeriPrefix \o i
          /\ anyRes # NotCalled => (anyRes.kind = "Some" /\ anyRes.doc = want)
          /\ tryRes # NotCalled => (tryRes.kind = "Ok" /\ tryRes.doc = want)

\* The resolve calls among the strategy calls of an outcome.
ResolveCalls(invoked) == SelectSeq(invoked, LAMBDA c : c.op = "resolve")

\* C9: the two entry points agree on every URL: resolve_any returns Some(d)
\* exactly when try_resolve_any returns Ok(d), the strategy being invoked with
\* the same identifier in both, and resolve_any returns None exactly when
\* try_resolve_any returns an error, which on a strategy failure is the
\* strategy's own error unchanged.
C9_EntryPointsAgree ==
  (tryRes # NotCalled /\ anyRes # NotCalled) =>
    /\ anyRes.kind = "Some" <=> tryRes.kind = "Ok"
    /\ anyRes.kind = "Some" => anyRes.doc = tryRes.doc
    /\ anyRes.kind = "None" <=> tryRes.kind = "Err"
    /\ ResolveCalls(anyRes.invoked) = ResolveCalls(tryRes.invoked)
    /\ \A c \in { tryRes.invoked[n] : n \in 1..Len(tryRes.invoked) } :
         (c.resolver = "key" /\ tryRes.kind = "Err") =>
           tryRes.err = DidKeyResolver_resolve(c.arg).err

\* ------------------------------------------------------------------------
\* did_id_from_url: claim C10
\* ------------------------------------------------------------------------

\* The unreserved characters of a URL.
UrlSafe == Alnum \cup {"-", ".", "_", "~"}

\* url is did:<method>:<identifier> with no query or fragment, method matching
\* [a-z][a-z0-9]* and identifier a non-empty run of URL-safe characters.
WellFormedBareDid ==
  \E m \in UrlMethods, i \in UrlIds :
    /\ url = <<"d", "i", "d", ":">> \o m \o <<":">> \o i
    /\ m # <<>> /\ m[1] \in Lower
    /\ \A n \in 1..Len(m) : m[n] \in Lower \cup Digit
    /\ i # <<>>
    /\ \A n \in 1..Len(i) : i[n] \in UrlSafe

\* C10: for every well-formed s = did:<method>:<identifier> with no query or
\* fragment, did_id_from_url(s) is s.
C10_RoundTrip ==
  (idRes # NotCalled /\ WellFormedBareDid) => idRes.doc = Some(url)

\* ------------------------------------------------------------------------
\* did_id_from_url and the dispatch pattern on other inputs: claims C11, C12
\* ------------------------------------------------------------------------

\* bare is did:<method>:<identifier>, method matching [a-z][a-z0-9]* and
\* identifier a non-empty run of URL-safe characters.
IsBareDid(bare) ==
  \E m \in UrlMethods, i \in UrlIds :
    /\ bare = <<"d", "i", "d", ":">> \o m \o <<":">> \o i
    /\ m # <<>> /\ m[1] \in Lower
    /\ \A n \in 1..Len(m) : m[n] \in Lower \cup Digit
    /\ i # <<>>
    /\ \A n \in 1..Len(i) : i[n] \in UrlSafe

\* The bare DIDs that url continues with a query or a fragment.
BareDidsOf(u) ==
  { SubSeq(u, 1, k) : k \in { k \in 1..(Len(u) - 1) :
                                /\ u[k + 1] \in {"?", "#"}
                                /\ IsBareDid(SubSeq(u, 1, k)) } }

\* C11: for every valid DID URL followed by a query or a fragment,
\* did_id_from_url returns did:<method>:<identifier>, the identifier being the
\* whole run up to the first '?' or '#', whatever follows it.
C11_QueryAndFragmentStripped ==
  idRes # NotCalled =>
    \A bare \in BareDidsOf(url) : idRes.doc = Some(bare)

\* The position of the first ':' of s, or 0.
FirstColon(s) ==
  IF \E k \in 1..Len(s) : s[k] = ":"
  THEN Min({ k \in 1..Len(s) : s[k] = ":" })
  ELSE 0

\* u does not begin with "did:", or the method between the first two colons
\* is empty, or the identifier that runs from the second colon to the first
\* '?' or '#' is empty.
IsNotADid(u) ==
  \/ ~ (Len(u) >= 4 /\ SubSeq(u, 1, 4) = <<"d", "i", "d", ":">>)
  \/ LET rest == SubSeq(u, 5, Len(u))
         c    == FirstColon(rest)
     IN  \/ c = 0
         \/ c = 1
         \/ c = Len(rest)
         \/ rest[c + 1] \in {"?", "#"}

\* C12: an input that does not begin with "did:", or has an empty method or
\* an empty identifier, is rejected: did_id_from_url gives None and
\* try_resolve_any gives the parse error.
C12_MalformedRejected ==
  IsNotADid(url) =>
    /\ idRes # NotCalled => idRes.doc = None
    /\ tryRes # NotCalled =>
         /\ tryRes.kind = "Err"
         /\ tryRes.err = Some(NotADidError)

\* ------------------------------------------------------------------------
\* The document queries: claims C13-C17
\* ------------------------------------------------------------------------

\* op was called on document with searchFor.
Queried(op) == queryRes # NotCalled /\ queryRes.op = op

\* The verification methods of document whose key_type contains searchFor,
\* in document order.
KeyTypeMatches ==
  { i \in 1..Len(document.verification_method) :
      \E p \in 0..Len(Chars(document.verification_method[i].key_type)) :
        /\ p + Len(searchFor)
             <= Len(Chars(document.verification_method[i].key_type))
        /\ \A n \in 1..Len(searchFor) :
             Chars(document.verification_method[i].key_type)[p + n]
               = searchFor[n] }

\* The number whose big-endian bytes are b.
RECURSIVE BytesValue(_)
BytesValue(b) ==
  IF b = <<>> THEN 0
  ELSE BytesValue(SubSeq(b, 1, Len(b) - 1)) * 256 + b[Len(b)]

\* text is made of base58 digits.
IsBase58(text) ==
  \A k \in 1..Len(text) :
    \E i \in 1..Len(B58Alphabet) : B58Alphabet[i] = text[k]

\* bytes is the base58 decoding of text: text spells the number of bytes in
\* base58 digits, with one leading '1' for every leading zero byte.
IsBase58Decoding(bytes, text) ==
  /\ IsBase58(text)
  /\ RunEnd(bytes, 1, {0}) = RunEnd(text, 1, {"1"})
  /\ BytesValue(bytes) = B58Value(text)

\* C13: find_public_key_for_curve returns the key bytes of the first
\* verification method, in document order, whose key_type contains the curve:
\* a Base58 key base58-decoded, Multibase bytes unchanged, and the earlier
\* method's bytes when several match.
C13_FirstMatchDecoded ==
  (Queried("find_public_key_for_curve") /\ KeyTypeMatches # {}) =>
    LET first == document.verification_method[Min(KeyTypeMatches)]
        key   == first.public_key[1]
    IN  /\ (first.public_key # None /\ key.format = "Multibase") =>
             queryRes.res = Outcome("Returned", Some(key.value), None, <<>>)
        /\ ( /\ first.public_key # None /\ key.format = "Base58"
             /\ IsBase58(key.value) ) =>
             /\ queryRes.res.kind = "Returned"
             /\ queryRes.res.doc # None
             /\ IsBase58Decoding(queryRes.res.doc[1], key.value)

\* Two methods match the curve, the earlier one holds a Base58 key and the
\* later one other bytes, and the earlier key's decoding was returned.
C13_Witness ==
  /\ Queried("find_public_key_for_curve")
  /\ Cardinality(KeyTypeMatches) = 2
  /\ LET first == document.verification_method[Min(KeyTypeMatches)]
         last  == document.verification_method[
                    CHOOSE i \in KeyTypeMatches : i # Min(KeyTypeMatches)]
     IN  /\ first.public_key # None /\ first.public_key[1].format = "Base58"
         /\ last.public_key # None /\ last.public_key[1].format = "Multibase"
         /\ queryRes.res.kind = "Returned" /\ queryRes.res.doc # None
         /\ queryRes.res.doc[1] # last.public_key[1].value
         /\ IsBase58Decoding(queryRes.res.doc[1], first.public_key[1].value)

\* C14: the four document queries are total: for every document and every
\* pattern they return a value; find_public_key_for_curve returns None when
\* the first matching method holds a JWK and returns a value when it holds a
\* Base58 text that is no base58.
C14_QueriesAreTotal ==
  queryRes # NotCalled =>
    /\ queryRes.res.kind = "Returned"
    /\ ( /\ queryRes.op = "find_public_key_for_curve"
         /\ KeyTypeMatches # {}
         /\ LET pk == document.verification_method[
                        Min(KeyTypeMatches)].public_key
            IN  pk # None /\ pk[1].format = "JWK" ) =>
         queryRes.res.doc = None

\* document holds one method, an Ed25519VerificationKey2018 with a key that
\* has bytes.
SingleEd25519Document ==
  /\ Len(document.verification_method) = 1
  /\ document.verification_method[1].key_type = "Ed25519VerificationKey2018"
  /\ LET pk == document.verification_method[1].public_key
     IN  /\ pk # None
         /\ \/ pk[1].format = "Multibase"
            \/ pk[1].format = "Base58" /\ IsBase58(pk[1].value)

JwkKeyTypeMatches ==
  { i \in KeyTypeMatches :
      /\ document.verification_method[i].public_key # None
      /\ document.verification_method[i].public_key[1].format = "JWK" }

\* C16: find_public_key_id_for_curve matches as find_public_key_for_curve
\* does (key_type contains the curve), among the methods whose key is a JWK,
\* and returns the key id of the first such method's JWK, or None when there
\* is none.
C16_KeyIdByKeyType ==
  Queried("find_public_key_id_for_curve") =>
    /\ queryRes.res.kind = "Returned"
    /\ queryRes.res.doc =
         IF JwkKeyTypeMatches = {} THEN None
         ELSE document.verification_method[
                Min(JwkKeyTypeMatches)].public_key[1].value.key_id

\* The entries of key_agreement that contain searchFor, in order.
AgreementMatches ==
  IF document.key_agreement = None THEN {}
  ELSE { i \in 1..Len(document.key_agreement[1]) :
           Contains(document.key_agreement[1][i], searchFor) }

\* C17: find_key_agreement returns the decoded form of the first entry of
\* key_agreement, in order, whose text contains the pattern, and None when
\* the list is absent, when no entry contains the pattern, or when that first
\* matching entry cannot be decoded.
C17_FirstAgreementDecoded ==
  Queried("find_key_agreement") =>
    /\ queryRes.res.kind = "Returned"
    /\ AgreementMatches = {} => queryRes.res.doc = None
    /\ AgreementMatches # {} =>
         LET decoded == serde_json_from_str(
                          document.key_agreement[1][Min(AgreementMatches)])
         IN  /\ ~ decoded.ok => queryRes.res.doc = None
             /\ decoded.ok => queryRes.res.doc = decoded.value

\* Two entries contain the pattern, the first cannot be decoded and the
\* second can, and None was returned.
C17_Witness ==
  /\ Queried("find_key_agreement")
  /\ Cardinality(AgreementMatches) = 2
  /\ ~ serde_json_from_str(
         document.key_agreement[1][Min(AgreementMatches)]).ok
  /\ \E i \in AgreementMatches :
       serde_json_from_str(document.key_agreement[1][i]).ok
  /\ queryRes.res.doc = None

\* ------------------------------------------------------------------------
\* The resolvers' documents: claims C18-C20
\* ------------------------------------------------------------------------

\* The sentinel key_type of a derivation tag without a key type.
UnknownKeyType == "bad key type"

\* The key_type the mapping assigns to a derivation tag.
KeyTypeOfTag(tag) ==
  IF tag \in {"Ed25519", "Ed25519NT"} THEN "Ed25519VerificationKey2018"
  ELSE IF tag \in {"ECDSAsecp256k1", "ECDSAsecp256k1NT"}
  THEN "EcdsaSecp256k1VerificationKey2019"
  ELSE IF tag = "X25519" THEN "X25519KeyAgreementKey2019"
  ELSE UnknownKeyType

\* C18: the key_type of a verification method is a function of the key's
\* derivation tag into a closed set of strings: the Ed25519, secp256k1 and
\* X25519 tags give their key type, every other tag gives the one sentinel,
\* and resolution does not fail on it.
C18_KeyTypeOfTag ==
  keriRes # NotCalled =>
    /\ keriRes.kind = "Ok"
    /\ Len(keriRes.doc[1].verification_method)
         = Len(resolverState.current_keys)
    /\ \A i \in 1..Len(resolverState.current_keys) :
         /\ keriRes.doc[1].verification_method[i].key_type
              = KeyTypeOfTag(resolverState.current_keys[i].derivation)
         /\ keriRes.doc[1].verification_method[i].key_type
              \in { "Ed25519VerificationKey2018",
                    "EcdsaSecp256k1VerificationKey2019",
                    "X25519KeyAgreementKey2019", UnknownKeyType }

\* A state with an X25519 key and a key of a tag without a key type was
\* resolved: the document holds the X25519 key type and the sentinel.
C18_Witness ==
  /\ keriRes # NotCalled /\ keriRes.kind = "Ok"
  /\ Len(resolverState.current_keys) = 2
  /\ resolverState.current_keys[1].derivation = "X25519"
  /\ resolverState.current_keys[2].derivation = "Ed448"
  /\ keriRes.doc[1].verification_method[1].key_type
       = "X25519KeyAgreementKey2019"
  /\ keriRes.doc[1].verification_method[2].key_type = UnknownKeyType

\* The documents the resolvers have returned.
ResolvedDocuments ==
  { r.doc[1] : r \in { r \in {tryRes, anyRes, keriRes} :
                         r.kind \in {"Ok", "Some"} } }

\* C19: the verification methods of a document returned by a resolver are
\* pairwise distinct by id, also when DidKeriResolver::resolve builds it from
\* a state with two or more current keys.
C19_MethodIdsDistinct ==
  \A d \in ResolvedDocuments :
    \A i, j \in 1..Len(d.verification_method) :
      i # j => d.verification_method[i].id # d.verification_method[j].id

\* C20: resolve_record returns Error::NotDidJolo, without querying the
\* contract, for every did_url that does not start with "did:jolo:", of any
\* length; when the contract is queried and answers with an empty record, it
\* returns Error::DidResolutionFailed.
C20_NotDidJoloOrRecord ==
  recRes # NotCalled =>
    /\ ~ StartsWith(url, <<"d", "i", "d", ":", "j", "o", "l", "o", ":">>) =>
         /\ recRes.res.kind = "Err"
         /\ recRes.res.err[1].kind = "NotDidJolo"
         /\ recRes.res.invoked = <<>>
    /\ (recRes.answered # None /\ recRes.answered[1].ok
          /\ recRes.answered[1].record = <<>>) =>
         /\ recRes.res.kind = "Err"
         /\ recRes.res.err[1].kind = "DidResolutionFailed"

\* ------------------------------------------------------------------------
\* The document of DidKeriResolver::resolve: claim C21
\* ------------------------------------------------------------------------

\* The current keys of the resolver's state whose key type label contains
\* searchFor, in key order.
KeysOfCurve ==
  { i \in 1..Len(resolverState.current_keys) :
      Contains(Chars(KeyTypeOfTag(resolverState.current_keys[i].derivation)),
               searchFor) }

\* C21: DidKeriResolver::resolve returns Ok with a document that has one
\* verification method per current key, in key order, each with controller
\* did_url, public_key Multibase of the key's raw bytes, key_type the label of
\* the key's derivation tag and private_key None; find_public_key_for_curve on
\* that document returns the raw bytes of the first current key whose label
\* contains the curve (None when there is no such key).
C21_ResolvedDocumentShape ==
  keriRes # NotCalled =>
    /\ keriRes.kind = "Ok"
    /\ keriRes.doc # None
    /\ Len(keriRes.doc[1].verification_method)
         = Len(resolverState.current_keys)
    /\ \A i \in 1..Len(resolverState.current_keys) :
         LET m   == keriRes.doc[1].verification_method[i]
             key == resolverState.current_keys[i]
         IN  /\ m.controller = url
             /\ m.public_key = Some([format |-> "Multibase",
                                     value  |-> key.derivative])
             /\ m.key_type = KeyTypeOfTag(key.derivation)
             /\ m.private_key = None
    /\ queryRes # NotCalled =>
         /\ document = keriRes.doc[1]
         /\ queryRes.res.kind = "Returned"
         /\ queryRes.res.doc =
              IF KeysOfCurve = {} THEN None
              ELSE Some(resolverState.current_keys[Min(KeysOfCurve)].derivative)

\* A state with an Ed25519 key followed by an X25519 key was resolved and the
\* document asked for "25519", which both labels contain: the Ed25519 key's
\* bytes were returned.
C21_Witness ==
  /\ keriRes # NotCalled /\ queryRes # NotCalled
  /\ Len(resolverState.current_keys) = 2
  /\ resolverState.current_keys[1].derivation = "Ed25519"
  /\ resolverState.current_keys[2].derivation = "X25519"
  /\ resolverState.current_keys[1].derivative
       # resolverState.current_keys[2].derivative
  /\ searchFor = <<"2", "5", "5", "1", "9">>
  /\ Cardinality(KeysOfCurve) = 2
  /\ queryRes.res.doc = Some(resolverState.current_keys[1].derivative)

====
